---- MODULE Spec2Model ----
(***************************************************************************)
(* WatchMap (src/index.js): a Map whose set() notifies the watchers        *)
(* registered on a key.  The model follows one WatchMap instance through   *)
(* top-level calls of set, delete, watch, once and of the unwatch          *)
(* functions that watch/once returned; every top-level call, with the      *)
(* callbacks it invokes and the calls these make, is one step.             *)
(*                                                                         *)
(* Spec        two keys; callbacks record their arguments and return.      *)
(* SpecF       two keys; one such callback, registered without a context.  *)
(* SpecCancel  one key; callbacks may cancel a watcher or register one.    *)
(* SpecWrite   one key; callbacks may set or delete the key.               *)
(* SpecFail    one key; callbacks may throw or be no functions.            *)
(***************************************************************************)
EXTENDS Integers, Sequences, FiniteSets, TLC

\* ----------------------------------------------------------------- bounds
MaxWatchers == 2      \* registrations (watch/once calls) in one run
MaxSteps == 4         \* top-level calls after construction in one run
MaxWatchersK == 3     \* the same, in the runs on one key
MaxStepsK == 4

\* ------------------------------------------------------------ value space
Keys == {"k1", "k2"}
Undefined == "undefined"          \* the JavaScript value undefined
Values == {Undefined, "a", "b"}   \* values a caller stores
NoEntry == "<no entry>"           \* a Map that has no entry for the key
Callbacks == {"f", "g"}           \* the functions a caller registers
Contexts == {Undefined, "ctx"}    \* options.context: absent, or an object
Options == [always : BOOLEAN, context : Contexts]
\* what callers register: f without a context, g with one
Listeners == {[fn |-> "f", context |-> Undefined], [fn |-> "g", context |-> "ctx"]}
\* what callers construct: new WatchMap(), new WatchMap([["k1", "a"]])
Iterables == {<<>>, <<[key |-> "k1", value |-> "a"]>>}

VARIABLES
  store,      \* the Map itself (super): key -> value or NoEntry
  previous,   \* private map 'previous': key -> value or NoEntry
  watchers,   \* private map 'watchers': key -> [has, arr]
  bound,      \* ids of the once() calls whose variable unwatch is assigned
  nextId,     \* the ids handed out so far are 1..nextId-1
  handles,    \* the unwatch functions returned to the caller: [key, id]
  steps,      \* top-level calls made so far
  lastEvent,  \* observation of the last top-level call
  regs,       \* observation: what each registration asked for, by id
  heard,      \* observation: the arguments each registration's callback got
  since,      \* observation: the set/delete calls on its key since, by id
  cancelled   \* observation: ids whose unwatch function has been invoked

vars == <<store, previous, watchers, bound, nextId, handles, steps,
          lastEvent, regs, heard, since, cancelled>>

\* ----------------------------------------------------------- Map (native)
mapGet(m, key) == IF m[key] = NoEntry THEN Undefined ELSE m[key]
mapHas(m, key) == m[key] # NoEntry

\* The instance: the Map and its private maps.
\* handles are the unwatch functions the caller holds, for its callbacks.
Heap(s, p, w, b, n, h) ==
  [store |-> s, previous |-> p, watchers |-> w, bound |-> b, nextId |-> n,
   handles |-> h]

EmptyHeap ==
  Heap([k \in Keys |-> NoEntry], [k \in Keys |-> NoEntry],
       [k \in Keys |-> [has |-> FALSE, arr |-> <<>>]], {}, 1, {})

\* ------------------------------------------------------------- _randomString
\* 32 characters drawn from 61: the model takes two calls never to return
\* the same string, and names the strings 1, 2, ...
randomString(H) == H.nextId

\* ------------------------------------------------------------------ unwatch
\* (unwatch matching records by their callback, not by their id)
unwatchByCallback(H, key, id) ==
  LET mine == SelectSeq(H.watchers[key].arr, LAMBDA c : c.id = id)
  IN  IF H.watchers[key].has /\ mine # <<>>
        THEN [H EXCEPT !.watchers[key].arr =
                SelectSeq(@, LAMBDA c : c.callback # mine[1].callback)]
        ELSE H

\* The closure returned by watch(key, ...) for the record with this id.
unwatch(H, key, id) ==
  IF H.watchers[key].has
    THEN [H EXCEPT !.watchers[key].arr = SelectSeq(@, LAMBDA c : c.id # id)]
    ELSE H

\* ------------------------------------------------------------------- delete
\* (delete removing the watchers of the key as well)
deleteDropsWatchers(H, key) ==
  LET H1 == IF mapHas(H.previous, key)
              THEN [H EXCEPT !.previous[key] = NoEntry]
              ELSE H
  IN  [H |-> [H1 EXCEPT !.store[key] = NoEntry,
                        !.watchers[key] = [has |-> FALSE, arr |-> <<>>]],
       fired |-> <<>>, threw |-> FALSE, ret |-> mapHas(H1.store, key)]

\* (delete leaving the entry of 'previous' in place)
deleteKeepsPrevious(H, key) ==
  [H |-> [H EXCEPT !.store[key] = NoEntry], fired |-> <<>>,
   threw |-> FALSE, ret |-> mapHas(H.store, key)]

\* (delete returning _private.delete(key), with super.delete() left out)
deleteOnlyPrevious(H, key) ==
  [H |-> [H EXCEPT !.previous[key] = NoEntry], fired |-> <<>>,
   threw |-> FALSE, ret |-> mapHas(H.previous, key)]

delete(H, key) ==
  LET H1 == IF mapHas(H.previous, key)
              THEN [H EXCEPT !.previous[key] = NoEntry]
              ELSE H
  IN  [H |-> [H1 EXCEPT !.store[key] = NoEntry], fired |-> <<>>,
       threw |-> FALSE, ret |-> mapHas(H1.store, key)]

\* ---------------------------------------------- watch: the new record
\* (watch starting a new array on every call, the has() test left out)
registerResetsArray(H, key, callback, options) ==
  LET c == [callback |-> callback, id |-> randomString(H),
            context |-> options.context]
  IN  [H EXCEPT !.watchers[key] = [has |-> TRUE, arr |-> <<c>>],
                !.nextId = @ + 1]

\* (watch putting the new record in front of the array: unshift for push)
registerPrepends(H, key, callback, options) ==
  LET c == [callback |-> callback, id |-> randomString(H),
            context |-> options.context]
  IN  [H EXCEPT !.watchers[key] = [has |-> TRUE, arr |-> <<c>> \o @.arr],
                !.nextId = @ + 1]

\* The first part of watch(): a record with a new id is pushed on the
\* array of the key.  callback is [fn, wrapper]: the user's function, or
\* once()'s wrapper of it.
register(H, key, callback, options) ==
  LET c == [callback |-> callback, id |-> randomString(H),
            context |-> options.context]
  IN  [H EXCEPT !.watchers[key] = [has |-> TRUE, arr |-> Append(@.arr, c)],
                !.nextId = @ + 1]

\* ------------------------------------------------------- calling a callback
\* What a callback finds when it is called: has(key) and get(key) of the
\* map it can read, the entry of the private map 'previous', and the ids of
\* the records registered on the key (countWatchers(key) is their number).
sees(H, key) ==
  [has |-> mapHas(H.store, key), get |-> mapGet(H.store, key),
   prev |-> H.previous[key],
   ids |-> [i \in 1..Len(H.watchers[key].arr) |-> H.watchers[key].arr[i].id]]

\* The functions callers register, by what their bodies do when called for
\* key with (value, oldValue):
\*   f, g          record the arguments and return
\*   setsB         if (value !== "b") map.set(key, "b")
\*   deletes       map.delete(key)
\*   watches       map.watch(key, f)
\*   cancel<n>     calls the unwatch function that the n-th registration
\*                 returned, if the caller holds it by then
\*   throws        throw new Error()
\*   notAFunction  is no function: calling it is a TypeError
Target == [cancel1 |-> 1, cancel2 |-> 2, cancel3 |-> 3]

does(H, key, fn, value) ==
  CASE fn = "notAFunction" -> [op |-> "TypeError", value |-> Undefined, id |-> 0]
    [] fn = "throws" -> [op |-> "throw", value |-> Undefined, id |-> 0]
    [] fn = "setsB" /\ value # "b" -> [op |-> "set", value |-> "b", id |-> 0]
    [] fn = "deletes" -> [op |-> "delete", value |-> Undefined, id |-> 0]
    [] fn = "watches" -> [op |-> "watch", value |-> Undefined, id |-> randomString(H)]
    [] fn \in DOMAIN Target /\ (\E h \in H.handles : h.id = Target[fn])
         -> [op |-> "unwatch", value |-> Undefined, id |-> Target[fn]]
    [] OTHER -> [op |-> "return", value |-> Undefined, id |-> 0]

RECURSIVE set(_, _, _)

\* The body of the function, doing d == does(H, key, fn, value);
\* map.watch(key, f), without always, is the first part of watch().
run(H, key, d) ==
  CASE d.op = "set" -> set(H, key, d.value)
    [] d.op = "delete" ->
         [H |-> delete(H, key).H, fired |-> <<>>, threw |-> FALSE]
    [] d.op = "watch" ->
         [H |-> register(H, key, [fn |-> "f", wrapper |-> FALSE],
                         [always |-> FALSE, context |-> Undefined]),
          fired |-> <<>>, threw |-> FALSE]
    [] d.op = "unwatch" ->
         [H |-> unwatch(H, key, d.id), fired |-> <<>>, threw |-> FALSE]
    [] d.op \in {"throw", "TypeError"} ->
         [H |-> H, fired |-> <<>>, threw |-> TRUE]
    [] OTHER -> [H |-> H, fired |-> <<>>, threw |-> FALSE]

\* (the wrapper of once() calling unwatch(), without the third argument)
invokeIgnoresUnwatchArg(H, key, c, value, oldValue, unwatchArg) ==
  LET d    == does(H, key, c.callback.fn, value)
      call == [id |-> c.id, callback |-> c.callback.fn, this |-> c.context,
               value |-> value, oldValue |-> oldValue, sees |-> sees(H, key),
               did |-> d]
      after(u) ==
        LET all == IF d.op = "TypeError" THEN <<>> ELSE <<call>> \o u.fired
        IN  IF u.threw
              THEN [H |-> u.H, fired |-> all, threw |-> TRUE]
              ELSE IF c.callback.wrapper
                     THEN IF c.id \in u.H.bound
                            THEN [H |-> unwatch(u.H, key, c.id), fired |-> all,
                                  threw |-> FALSE]
                            ELSE [H |-> u.H, fired |-> all, threw |-> TRUE]
                     ELSE [H |-> u.H, fired |-> all, threw |-> FALSE]
  IN  after(run(H, key, d))

\* One call of a record's callback with (value, oldValue[, unwatch]): the
\* calls of callers' functions it makes, in order, and whether it threw.  A
\* record made by once() holds the wrapper of once(): it calls the user's
\* callback and then (unwatch || _unwatch)(), which throws a TypeError when
\* neither the variable nor the third argument is a function.
invoke(H, key, c, value, oldValue, unwatchArg) ==
  LET d    == does(H, key, c.callback.fn, value)
      call == [id |-> c.id, callback |-> c.callback.fn, this |-> c.context,
               value |-> value, oldValue |-> oldValue, sees |-> sees(H, key),
               did |-> d]
      after(u) ==
        LET all == IF d.op = "TypeError" THEN <<>> ELSE <<call>> \o u.fired
        IN  IF u.threw
              THEN [H |-> u.H, fired |-> all, threw |-> TRUE]
              ELSE IF c.callback.wrapper
                     THEN IF c.id \in u.H.bound \/ unwatchArg
                            THEN [H |-> unwatch(u.H, key, c.id), fired |-> all,
                                  threw |-> FALSE]
                            ELSE [H |-> u.H, fired |-> all, threw |-> TRUE]
                     ELSE [H |-> u.H, fired |-> all, threw |-> FALSE]
  IN  after(run(H, key, d))

\* -------------------------------------------------------------------- _fire
\* (forEach following the array that is registered by now: what a pass
\* would do if unwatch removed the record from the array in place)
forEachLive(arr, H, key, value, oldValue) ==
  LET upTo[i \in 0..(Len(arr) + MaxWatchersK + 1)] ==
        IF i = 0
          THEN [H |-> H, fired |-> <<>>, threw |-> FALSE]
          ELSE LET p == upTo[i - 1]
               IN  IF p.threw \/ i > Len(p.H.watchers[key].arr)
                     THEN p
                     ELSE LET after(r) ==
                                [H |-> r.H, fired |-> p.fired \o r.fired,
                                 threw |-> r.threw]
                          IN  after(invoke(p.H, key, p.H.watchers[key].arr[i],
                                           value, oldValue, FALSE))
  IN  upTo[Len(arr) + MaxWatchersK + 1]

\* (a loop up to the current length of the array for forEach: it reaches the
\* records pushed on the array during the pass, as long as no unwatch has
\* put a filtered copy in its place)
forEachGrowing(arr, H, key, value, oldValue) ==
  LET upTo[i \in 0..(Len(arr) + MaxWatchersK + 1)] ==
        IF i = 0
          THEN [H |-> H, fired |-> <<>>, threw |-> FALSE, cur |-> arr]
          ELSE LET p   == upTo[i - 1]
                   now == p.H.watchers[key].arr
                   cur == IF /\ Len(now) >= Len(p.cur)
                             /\ SubSeq(now, 1, Len(p.cur)) = p.cur
                            THEN now ELSE p.cur
               IN  IF p.threw \/ i > Len(cur)
                     THEN p
                     ELSE LET after(r) ==
                                [H |-> r.H, fired |-> p.fired \o r.fired,
                                 threw |-> r.threw, cur |-> cur]
                          IN  after(invoke(p.H, key, cur[i], value, oldValue,
                                           FALSE))
      end == upTo[Len(arr) + MaxWatchersK + 1]
  IN  [H |-> end.H, fired |-> end.fired, threw |-> end.threw]

\* (forEach with every callback called in a try/catch that drops the error)
forEachIsolates(arr, H, key, value, oldValue) ==
  LET upTo[i \in 0..Len(arr)] ==
        IF i = 0
          THEN [H |-> H, fired |-> <<>>, threw |-> FALSE]
          ELSE LET p == upTo[i - 1]
                   after(r) ==
                     [H |-> r.H, fired |-> p.fired \o r.fired, threw |-> FALSE]
               IN  after(invoke(p.H, key, arr[i], value, oldValue, FALSE))
  IN  upTo[Len(arr)]

\* Array.prototype.forEach over the array that was registered when the pass
\* began: unwatch replaces the array and never changes it in place, and
\* forEach does not visit what watch pushes on it during the pass.  upTo[i]
\* is the pass after its first i calls; a call that throws ends it.
forEach(arr, H, key, value, oldValue) ==
  LET upTo[i \in 0..Len(arr)] ==
        IF i = 0
          THEN [H |-> H, fired |-> <<>>, threw |-> FALSE]
          ELSE LET p == upTo[i - 1]
               IN  IF p.threw
                     THEN p
                     ELSE LET after(r) ==
                                [H |-> r.H, fired |-> p.fired \o r.fired,
                                 threw |-> r.threw]
                          IN  after(invoke(p.H, key, arr[i], value, oldValue,
                                           FALSE))
  IN  upTo[Len(arr)]

fire(H, key, value) ==
  LET oldValue == mapGet(H.store, key)
  IN  IF H.watchers[key].has
        THEN forEach(H.watchers[key].arr, H, key, value, oldValue)
        ELSE [H |-> H, fired |-> <<>>, threw |-> FALSE]

\* ---------------------------------------------------------------------- set
\* (set leaving out super.set() when a callback has written the key)
setKeepsNestedWrite(H, key, value) ==
  LET H1 == [H EXCEPT !.previous[key] = mapGet(H.store, key)]
      after(f) ==
        IF f.threw
          THEN [H |-> f.H, fired |-> f.fired, threw |-> TRUE, ret |-> Undefined]
          ELSE [H |-> IF f.H.store[key] # H.store[key] THEN f.H
                      ELSE [f.H EXCEPT !.store[key] = value],
                fired |-> f.fired, threw |-> FALSE, ret |-> "this"]
  IN  after(fire(H1, key, value))

\* (set writing the entry of 'previous' after _fire, not before)
setShadowAfterFire(H, key, value) ==
  LET after(f) ==
        IF f.threw
          THEN [H |-> f.H, fired |-> f.fired, threw |-> TRUE, ret |-> Undefined]
          ELSE [H |-> [f.H EXCEPT !.previous[key] = mapGet(H.store, key),
                                  !.store[key] = value],
                fired |-> f.fired, threw |-> FALSE, ret |-> "this"]
  IN  after(fire(H, key, value))

\* (set with super.set() moved in front of _fire)
setCommitsFirst(H, key, value) ==
  LET H1 == [H EXCEPT !.previous[key] = mapGet(H.store, key),
                      !.store[key] = value]
      after(f) ==
        [H |-> f.H, fired |-> f.fired, threw |-> f.threw,
         ret |-> IF f.threw THEN Undefined ELSE "this"]
  IN  after(fire(H1, key, value))

set(H, key, value) ==
  LET H1 == [H EXCEPT !.previous[key] = mapGet(H.store, key)]
      after(f) ==
        IF f.threw
          THEN [H |-> f.H, fired |-> f.fired, threw |-> TRUE, ret |-> Undefined]
          ELSE [H |-> [f.H EXCEPT !.store[key] = value], fired |-> f.fired,
                threw |-> FALSE, ret |-> "this"]
  IN  after(fire(H1, key, value))

\* -------------------------------------------------------------------- watch
watch(H, key, callback, options) ==
  LET id == randomString(H)
      c  == [callback |-> callback, id |-> id, context |-> options.context]
      H1 == register(H, key, callback, options)
  IN  IF options.always /\ mapHas(H1.store, key)
        THEN LET after(r) ==
                   [H |-> r.H, fired |-> r.fired, threw |-> r.threw, ret |-> id]
             IN  after(invoke(H1, key, c, mapGet(H1.store, key),
                              mapGet(H1.previous, key), TRUE))
        ELSE [H |-> H1, fired |-> <<>>, threw |-> FALSE, ret |-> id]

\* --------------------------------------------------------------------- once
once(H, key, fn, options) ==
  LET after(r) == IF r.threw THEN r ELSE [r EXCEPT !.H.bound = @ \cup {r.ret}]
  IN  after(watch(H, key, [fn |-> fn, wrapper |-> TRUE], options))

\* ------------------------------------------------------------ countWatchers
countWatchers(H, key) ==
  IF H.watchers[key].has THEN Len(H.watchers[key].arr) ELSE 0

\* -------------------------------------------------------------- constructor
\* super(iterable) adds each entry with this.set, the overridden set().
RECURSIVE construct(_, _, _)
construct(H, iterable, i) ==
  IF i > Len(iterable) THEN H
  ELSE construct(set(H, iterable[i].key, iterable[i].value).H,
                 iterable, i + 1)

\* ============================================================== the machine
Here == Heap(store, previous, watchers, bound, nextId, handles)

Ids == 1..(nextId - 1)

\* ids of the records of an array, in array order
idsOf(arr) == [i \in 1..Len(arr) |-> arr[i].id]

\* A registration is active from its watch/once call until its unwatch
\* function is invoked or, for once, until its callback has been invoked.
Active(id) ==
  /\ id \in Ids
  /\ id \notin cancelled
  /\ ~(regs[id].once /\ heard[id] # <<>>)

ActiveOn(key) == {id \in Ids : Active(id) /\ regs[id].key = key}

\* A change of the key in the sense of the specification: a set() of a value
\* other than the stored one (an absent key holds no value), a delete() of a
\* present key.
Changes(op, key, value) ==
  IF op = "set" THEN store[key] # value ELSE mapHas(store, key)

\* What a top-level call did, and the state it started from.
Event(op, key, value, id, r) ==
  [op |-> op, key |-> key, value |-> value, id |-> id, ret |-> r.ret,
   threw |-> r.threw, fired |-> r.fired,
   changed |-> Changes(op, key, value),
   pre |-> [has |-> mapHas(store, key), get |-> mapGet(store, key),
            prev |-> mapGet(previous, key),
            arr |-> [k \in Keys |-> watchers[k].arr],
            count |-> [k \in Keys |-> countWatchers(Here, k)],
            active |-> [k \in Keys |-> ActiveOn(k)]]]

\* the arguments the callback of registration id got in a pass
argsOf(fired, id) ==
  LET at == SelectSeq(fired, LAMBDA c : c.id = id)
  IN  [i \in 1..Len(at) |-> [value |-> at[i].value, oldValue |-> at[i].oldValue]]

\* the registrations that callbacks made during a call on key (map.watch(key,
\* f) of the function 'watches'), in the order of their ids
nestedRegs(key, fired) ==
  LET ws == SelectSeq(fired, LAMBDA c : c.did.op = "watch")
  IN  [i \in 1..Len(ws) |->
         [key |-> key, fn |-> "f", once |-> FALSE, always |-> FALSE,
          nested |-> TRUE,
          context |-> Undefined, present |-> ws[i].sees.has,
          get |-> ws[i].sees.get,
          prev |-> IF ws[i].sees.prev = NoEntry THEN Undefined
                   ELSE ws[i].sees.prev]]

\* the ids whose unwatch function a callback invoked during a call
nestedCancels(fired) ==
  {fired[i].did.id : i \in {j \in 1..Len(fired) : fired[j].did.op = "unwatch"}}

\* The program's part of a step: the heap after the call.
Commit(r) ==
  /\ store' = r.H.store
  /\ previous' = r.H.previous
  /\ watchers' = r.H.watchers
  /\ bound' = r.H.bound
  /\ nextId' = r.H.nextId
  /\ steps' = steps + 1

Observe(op, key, value, r) ==
  /\ lastEvent' = Event(op, key, value, 0, r)
  /\ regs' = regs \o nestedRegs(key, r.fired)
  /\ heard' = [i \in DOMAIN heard |-> heard[i] \o argsOf(r.fired, i)]
                 \o [i \in 1..(r.H.nextId - nextId) |->
                       argsOf(r.fired, nextId + i - 1)]
  /\ since' = [i \in DOMAIN since |->
                 IF regs[i].key = key
                   THEN Append(since[i], [op |-> op, value |-> value,
                                          changed |-> Changes(op, key, value)])
                   ELSE since[i]]
                 \o [i \in 1..(r.H.nextId - nextId) |-> <<>>]
  /\ cancelled' = cancelled \cup nestedCancels(r.fired)
  /\ UNCHANGED handles

Init ==
  \E iterable \in Iterables :
    LET H == construct(EmptyHeap, iterable, 1)
    IN  /\ store = H.store
        /\ previous = H.previous
        /\ watchers = H.watchers
        /\ bound = H.bound
        /\ nextId = H.nextId
        /\ handles = {}
        /\ steps = 0
        /\ lastEvent = [op |-> "new", key |-> "k1", value |-> Undefined, id |-> 0,
                        ret |-> "this", threw |-> FALSE, fired |-> <<>>,
                        changed |-> FALSE,
                        pre |-> [has |-> FALSE, get |-> Undefined, prev |-> Undefined,
                                 arr |-> [k \in Keys |-> <<>>],
                                 count |-> [k \in Keys |-> 0],
                                 active |-> [k \in Keys |-> {}]]]
        /\ regs = <<>>
        /\ heard = <<>>
        /\ since = <<>>
        /\ cancelled = {}

\* map.set(key, value)
Set(key, value) ==
  /\ steps < MaxSteps
  /\ LET r == set(Here, key, value)
     IN  Commit(r) /\ Observe("set", key, value, r)

\* map.delete(key)
Delete(key) ==
  /\ steps < MaxSteps
  /\ LET r == delete(Here, key)
     IN  Commit(r) /\ Observe("delete", key, Undefined, r)

Register(op, key, fn, options, r) ==
  /\ Commit(r)
  /\ lastEvent' = Event(op, key, Undefined, r.ret, r)
  /\ handles' = IF r.threw THEN handles ELSE handles \cup {[key |-> key, id |-> r.ret]}
  /\ regs' = Append(regs, [key |-> key, fn |-> fn, once |-> (op = "once"),
                           always |-> options.always, nested |-> FALSE,
                           context |-> options.context,
                           present |-> mapHas(store, key),
                           get |-> mapGet(store, key),
                           prev |-> mapGet(previous, key)])
                \o nestedRegs(key, r.fired)
  /\ heard' = [i \in DOMAIN heard |-> heard[i] \o argsOf(r.fired, i)]
                 \o [i \in 1..(r.H.nextId - nextId) |->
                       argsOf(r.fired, nextId + i - 1)]
  /\ since' = since \o [i \in 1..(r.H.nextId - nextId) |-> <<>>]
  /\ cancelled' = cancelled \cup nestedCancels(r.fired)

\* unwatch = map.watch(key, fn, options)
Watch(key, fn, options) ==
  /\ steps < MaxSteps
  /\ nextId <= MaxWatchers
  /\ Register("watch", key, fn, options,
              watch(Here, key, [fn |-> fn, wrapper |-> FALSE], options))

\* unwatch = map.once(key, fn, options)
Once(key, fn, options) ==
  /\ steps < MaxSteps
  /\ nextId <= MaxWatchers
  /\ Register("once", key, fn, options,
              once(Here, key, fn, options))

\* unwatch(), for an unwatch function that watch/once returned
Unwatch(h) ==
  /\ steps < MaxSteps
  /\ LET r == [H |-> unwatch(Here, h.key, h.id), fired |-> <<>>, threw |-> FALSE,
               ret |-> Undefined]
     IN  /\ Commit(r)
         /\ lastEvent' = Event("unwatch", h.key, Undefined, h.id, r)
  /\ cancelled' = cancelled \cup {h.id}
  /\ UNCHANGED <<handles, regs, heard, since>>

Next ==
  \/ \E key \in Keys, value \in Values : Set(key, value)
  \/ \E key \in Keys : Delete(key)
  \/ \E key \in Keys, l \in Listeners, always \in BOOLEAN :
       Watch(key, l.fn, [always |-> always, context |-> l.context])
  \/ \E key \in Keys, l \in Listeners, always \in BOOLEAN :
       Once(key, l.fn, [always |-> always, context |-> l.context])
  \/ \E h \in handles : Unwatch(h)

Spec == Init /\ [][Next]_vars

\* ================================================= two keys, one function
\* The calls of Next by a caller that registers the function f only, without
\* a context.
NextF ==
  \/ \E key \in Keys, value \in Values : Set(key, value)
  \/ \E key \in Keys : Delete(key)
  \/ \E key \in Keys, always \in BOOLEAN :
       Watch(key, "f", [always |-> always, context |-> Undefined])
  \/ \E key \in Keys, always \in BOOLEAN :
       Once(key, "f", [always |-> always, context |-> Undefined])
  \/ \E h \in handles : Unwatch(h)

SpecF == Init /\ [][NextF]_vars

\* ================================== one key, callbacks that call the map
\* The same instance, watched on one key by functions that call set,
\* delete, watch or an unwatch function of the map from within a callback,
\* that throw, or that are no functions.
K == "k1"
ValuesK == {"a", "b"}

\* map.set(K, value)
SetK(value) ==
  /\ steps < MaxStepsK
  /\ LET r == set(Here, K, value)
     IN  /\ r.H.nextId <= MaxWatchersK + 1
         /\ Commit(r) /\ Observe("set", K, value, r)

\* map.delete(K)
DeleteK ==
  /\ steps < MaxStepsK
  /\ LET r == delete(Here, K)
     IN  Commit(r) /\ Observe("delete", K, Undefined, r)

\* unwatch = map.watch(K, fn, {always})
WatchK(fn, always) ==
  /\ steps < MaxStepsK
  /\ LET options == [always |-> always, context |-> Undefined]
         r == watch(Here, K, [fn |-> fn, wrapper |-> FALSE], options)
     IN  /\ r.H.nextId <= MaxWatchersK + 1
         /\ Register("watch", K, fn, options, r)

\* unwatch = map.once(K, fn, {always})
OnceK(fn, always) ==
  /\ steps < MaxStepsK
  /\ LET options == [always |-> always, context |-> Undefined]
         r == once(Here, K, fn, options)
     IN  /\ r.H.nextId <= MaxWatchersK + 1
         /\ Register("once", K, fn, options, r)

\* unwatch(), called by the caller outside of any callback
UnwatchK(h) ==
  /\ steps < MaxStepsK
  /\ LET r == [H |-> unwatch(Here, h.key, h.id), fired |-> <<>>, threw |-> FALSE,
               ret |-> Undefined]
     IN  /\ Commit(r)
         /\ lastEvent' = Event("unwatch", h.key, Undefined, h.id, r)
  /\ cancelled' = cancelled \cup {h.id}
  /\ UNCHANGED <<handles, regs, heard, since>>

NextK(fns, alwayses) ==
  \/ \E value \in ValuesK : SetK(value)
  \/ DeleteK
  \/ \E fn \in fns, always \in alwayses : WatchK(fn, always)
  \/ \E fn \in fns, always \in alwayses : OnceK(fn, always)
  \/ \E h \in handles : UnwatchK(h)

\* callbacks that cancel watchers or register one
Cancelling == {"f", "cancel1", "cancel2", "cancel3", "watches"}
SpecCancel == Init /\ [][NextK(Cancelling, {FALSE})]_vars

\* callbacks that set or delete the key
Writing == {"f", "setsB", "deletes"}
SpecWrite == Init /\ [][NextK(Writing, BOOLEAN)]_vars

\* callbacks that throw or are no functions
Failing == {"f", "throws", "notAFunction"}
SpecFail == Init /\ [][NextK(Failing, BOOLEAN)]_vars

\* ================================================================ the claims
\* the last top-level call invoked the callback of registration id exactly
\* once, with (value, oldValue)
FiredOnceWith(id, value, oldValue) ==
  argsOf(lastEvent.fired, id) = <<[value |-> value, oldValue |-> oldValue]>>

\* registration id has seen only set() calls that changed its key
OnlyChangingSets(id) ==
  \A j \in 1..Len(since[id]) : since[id][j].op = "set" /\ since[id][j].changed

ChangedAt(id) == {j \in 1..Len(since[id]) : since[id][j].changed}

\* registration id is a watch() that was not invoked at registration
Persistent(id) ==
  ~regs[id].once /\ ~(regs[id].always /\ regs[id].present)

\* C2: a set(k, v) of the value k already holds invokes no watcher of k, so a
\* persistent watcher that has seen only sets has been invoked as many times
\* as the stored value changed (set 5, 4, 4, 4, 3: three times).
C2_FireOnChange ==
  /\ (lastEvent.op = "set" /\ ~lastEvent.changed) => lastEvent.fired = <<>>
  /\ \A id \in Ids :
       (/\ Persistent(id)
        /\ id \notin cancelled
        /\ \A j \in 1..Len(since[id]) : since[id][j].op = "set")
       => Len(heard[id]) = Cardinality(ChangedAt(id))

\* C3: delete(k) of a present key invokes every watcher registered on k with
\* (undefined, the value k held), and returns true.
C3_DeleteNotifies ==
  (lastEvent.op = "delete" /\ lastEvent.pre.has) =>
    /\ \A id \in lastEvent.pre.active[lastEvent.key] :
         FiredOnceWith(id, Undefined, lastEvent.pre.get)
    /\ lastEvent.ret = TRUE

\* C4: the callback of a once(k, cb) without always is invoked exactly once,
\* by the first call that changes k, with that call's arguments; no later set
\* or delete invokes it, and from then on the watcher is not counted.
C4_OnceOnFirstChange ==
  \A id \in Ids :
    (regs[id].once /\ ~regs[id].always /\ id \notin cancelled) =>
      IF ChangedAt(id) = {}
        THEN heard[id] = <<>>
        ELSE LET first == CHOOSE j \in ChangedAt(id) :
                            \A i \in ChangedAt(id) : j <= i
             IN  /\ heard[id] = <<[value |-> since[id][first].value,
                                   oldValue |-> regs[id].get]>>
                 /\ id \notin {watchers[regs[id].key].arr[i].id :
                                 i \in 1..Len(watchers[regs[id].key].arr)}

\* C5: after the unwatch function of a watcher of k was invoked, no set or
\* delete on k invokes that watcher, and each of them (a delete of a present
\* key, any set) invokes every other watcher still registered on k.
C5_CancelledSilentOthersNotified ==
  (/\ lastEvent.op \in {"set", "delete"}
   /\ lastEvent.op = "delete" => lastEvent.pre.has
   /\ \E c \in cancelled : regs[c].key = lastEvent.key)
  => /\ \A c \in cancelled : argsOf(lastEvent.fired, c) = <<>>
     /\ \A id \in lastEvent.pre.active[lastEvent.key] :
          Len(argsOf(lastEvent.fired, id)) = 1

\* C7: watch(k, cb, options) invokes cb during the call exactly when
\* options.always is set and k is present, once, with (the value of k, the
\* shadow previous value of k); the watcher stays registered and every later
\* change of k (a set of another value, a delete of the present key) invokes
\* cb again.
C7_AlwaysWatch ==
  /\ lastEvent.op = "watch" =>
       /\ (lastEvent.fired # <<>>) <=>
            (regs[lastEvent.id].always /\ lastEvent.pre.has)
       /\ lastEvent.fired # <<>> =>
            /\ Len(lastEvent.fired) = 1
            /\ FiredOnceWith(lastEvent.id, lastEvent.pre.get, lastEvent.pre.prev)
       /\ Active(lastEvent.id)
       /\ countWatchers(Here, lastEvent.key) = lastEvent.pre.count[lastEvent.key] + 1
  /\ (lastEvent.op \in {"set", "delete"} /\ lastEvent.changed) =>
       \A id \in lastEvent.pre.active[lastEvent.key] :
         (~regs[id].once /\ regs[id].always /\ regs[id].present)
         => Len(argsOf(lastEvent.fired, id)) = 1

\* C6 as stated: countWatchers(k) is the number of active registrations on k;
\* every watch or once call on k raises it by one, every invocation of the
\* unwatch function of an active watcher of k lowers it by one, and no
\* watch, once or unwatch changes the count of another key.
C6_CountPlusOnePerRegistration ==
  /\ \A k \in Keys : countWatchers(Here, k) = Cardinality(ActiveOn(k))
  /\ lastEvent.op \in {"watch", "once"} =>
       countWatchers(Here, lastEvent.key) = lastEvent.pre.count[lastEvent.key] + 1
  /\ (lastEvent.op = "unwatch" /\ lastEvent.id \in lastEvent.pre.active[lastEvent.key]) =>
       countWatchers(Here, lastEvent.key) = lastEvent.pre.count[lastEvent.key] - 1
  /\ lastEvent.op \in {"watch", "once", "unwatch"} =>
       \A k \in Keys \ {lastEvent.key} :
         countWatchers(Here, k) = lastEvent.pre.count[k]

\* the last call was a once() with always on a present key
OnceFiredAtRegistration ==
  /\ lastEvent.op = "once"
  /\ regs[lastEvent.id].always
  /\ lastEvent.pre.has

\* C6, amended: as above, except that a once call with always on a present
\* key invokes and retires its watcher during the call and leaves the count
\* as it was; invoking the unwatch function of a watcher that is no longer
\* active changes no count.
C6_CountIsActive ==
  /\ \A k \in Keys : countWatchers(Here, k) = Cardinality(ActiveOn(k))
  /\ lastEvent.op \in {"watch", "once"} =>
       countWatchers(Here, lastEvent.key) =
         lastEvent.pre.count[lastEvent.key]
           + (IF OnceFiredAtRegistration THEN 0 ELSE 1)
  /\ lastEvent.op = "unwatch" =>
       countWatchers(Here, lastEvent.key) =
         lastEvent.pre.count[lastEvent.key]
           - (IF lastEvent.id \in lastEvent.pre.active[lastEvent.key] THEN 1 ELSE 0)
  /\ lastEvent.op \in {"watch", "once", "unwatch"} =>
       \A k \in Keys \ {lastEvent.key} :
         countWatchers(Here, k) = lastEvent.pre.count[k]

\* C6's case: the unwatch function of one of two active watchers of a key
\* has just been invoked, and the count went from 2 to 1.
C6_Witness ==
  /\ lastEvent.op = "unwatch"
  /\ lastEvent.pre.count[lastEvent.key] = 2
  /\ lastEvent.id \in lastEvent.pre.active[lastEvent.key]
  /\ countWatchers(Here, lastEvent.key) = 1

\* C8: once(k, cb, {always: true}) on a present k invokes cb once during the
\* call, with (the value of k, the shadow previous value), leaves
\* countWatchers(k) as it was, and no later set or delete invokes cb; on an
\* absent k it invokes nothing during the call, and cb is invoked exactly
\* once, by the first later change of k.
C8_OnceAlways ==
  /\ (lastEvent.op = "once" /\ regs[lastEvent.id].always) =>
       IF lastEvent.pre.has
         THEN /\ FiredOnceWith(lastEvent.id, lastEvent.pre.get, lastEvent.pre.prev)
              /\ Len(lastEvent.fired) = 1
              /\ countWatchers(Here, lastEvent.key) =
                   lastEvent.pre.count[lastEvent.key]
         ELSE lastEvent.fired = <<>>
  /\ \A id \in Ids :
       (regs[id].once /\ regs[id].always) =>
         /\ regs[id].present =>
              heard[id] = <<[value |-> regs[id].get, oldValue |-> regs[id].prev]>>
         /\ (~regs[id].present /\ id \notin cancelled) =>
              IF ChangedAt(id) = {}
                THEN heard[id] = <<>>
                ELSE LET first == CHOOSE j \in ChangedAt(id) :
                                    \A i \in ChangedAt(id) : j <= i
                     IN  heard[id] = <<[value |-> since[id][first].value,
                                        oldValue |-> Undefined]>>
         /\ Len(heard[id]) <= 1

\* C8's case: a once with always was registered on a present key that had
\* a shadow previous value, and the key was changed afterwards.
C8_Witness ==
  \E id \in Ids :
    /\ regs[id].once /\ regs[id].always /\ regs[id].present
    /\ regs[id].prev # Undefined
    /\ ChangedAt(id) # {}
    /\ Len(heard[id]) = 1

\* C9: delete(k) returns true exactly when k was present, leaves k absent,
\* and invokes no watcher when k was absent.
C9_Delete ==
  lastEvent.op = "delete" =>
    /\ lastEvent.ret = lastEvent.pre.has
    /\ ~mapHas(store, lastEvent.key)
    /\ ~lastEvent.pre.has => lastEvent.fired = <<>>

\* C9's case: a present key that is watched has just been deleted.
C9_Witness ==
  /\ lastEvent.op = "delete"
  /\ lastEvent.pre.has
  /\ lastEvent.ret = TRUE
  /\ lastEvent.pre.count[lastEvent.key] > 0

\* C10: an unwatch function, whenever and however often it is invoked,
\* removes at most the record of the registration that returned it; all
\* other records, on every key, stay as they were and in their order.
C10_UnwatchRemovesOnlyItsRecord ==
  lastEvent.op = "unwatch" =>
    /\ \A k \in Keys :
         watchers[k].arr =
           SelectSeq(lastEvent.pre.arr[k],
                     LAMBDA c : ~(k = lastEvent.key /\ c.id = lastEvent.id))
    /\ Len(lastEvent.pre.arr[lastEvent.key]) - Len(watchers[lastEvent.key].arr) <= 1
    /\ \A id \in lastEvent.pre.active[lastEvent.key] \ {lastEvent.id} : Active(id)

\* C10's case: of two records on one key that hold the identical callback,
\* the unwatch function of one has just removed its own record only.
C10_Witness ==
  /\ lastEvent.op = "unwatch"
  /\ Len(lastEvent.pre.arr[lastEvent.key]) = 2
  /\ lastEvent.pre.arr[lastEvent.key][1].callback =
       lastEvent.pre.arr[lastEvent.key][2].callback
  /\ Len(watchers[lastEvent.key].arr) = 1
  /\ watchers[lastEvent.key].arr[1].id # lastEvent.id

\* the i-th call of a callback during the last top-level call came after a
\* callback had called set or delete during that same call
AfterNestedWrite(i) ==
  \E j \in 1..(i - 1) : lastEvent.fired[j].did.op \in {"set", "delete"}

\* C11 as stated: set(k, v) invokes the watchers of k before it stores v:
\* every callback invoked during a set finds has(k) and get(k) as they were
\* before the call, and finds the entry of k in 'previous' already holding
\* that old value (undefined when k was absent).
C11_FiresBeforeCommit ==
  lastEvent.op = "set" =>
    \A i \in 1..Len(lastEvent.fired) :
      /\ lastEvent.fired[i].sees.has = lastEvent.pre.has
      /\ lastEvent.fired[i].sees.get = lastEvent.pre.get
      /\ lastEvent.fired[i].sees.prev = lastEvent.pre.get

\* C11, amended: the same for every callback that is invoked before any
\* callback of the pass has itself called set or delete on k; whatever the
\* callbacks do, the first one invoked finds the state before the call.
C11_FiresBeforeOwnCommit ==
  lastEvent.op = "set" =>
    \A i \in 1..Len(lastEvent.fired) :
      ~AfterNestedWrite(i) =>
        /\ lastEvent.fired[i].sees.has = lastEvent.pre.has
        /\ lastEvent.fired[i].sees.get = lastEvent.pre.get
        /\ lastEvent.fired[i].sees.prev = lastEvent.pre.get

\* C11's case: a set of another value on a present key whose entry in
\* 'previous' held a third value has invoked two watchers that read the old
\* value, and the new value is stored now.
C11_Witness ==
  /\ lastEvent.op = "set"
  /\ Len(lastEvent.fired) = 2
  /\ lastEvent.pre.has
  /\ lastEvent.pre.get # lastEvent.value
  /\ lastEvent.pre.prev # lastEvent.pre.get
  /\ \A i \in 1..2 : /\ ~AfterNestedWrite(i)
                     /\ lastEvent.fired[i].sees.get = lastEvent.pre.get
  /\ store[lastEvent.key] = lastEvent.value

\* C12: a set invokes the watchers of its key in the order of their
\* registration: each active watcher is invoked, and of two invoked
\* callbacks the one registered first (the smaller id) is invoked first,
\* whichever other watchers of the key were cancelled before or are
\* cancelled during the pass.
C12_RegistrationOrder ==
  lastEvent.op = "set" =>
    /\ \A id \in lastEvent.pre.active[lastEvent.key] :
         \E i \in 1..Len(lastEvent.fired) : lastEvent.fired[i].id = id
    /\ \A i, j \in 1..Len(lastEvent.fired) :
         i < j => lastEvent.fired[i].id < lastEvent.fired[j].id

\* C12's case: of three watchers of the key the second was cancelled, and a
\* set has invoked the first and then the third.
C12_Witness ==
  /\ lastEvent.op = "set"
  /\ 2 \in cancelled
  /\ idsOf(lastEvent.fired) = <<1, 3>>
  /\ lastEvent.pre.active[lastEvent.key] = {1, 3}

\* C13: a watch or once call whose callback is no function throws at the
\* call and adds no record: countWatchers of the key stays as it was.
C13_RejectsNonCallable ==
  (/\ lastEvent.op \in {"watch", "once"}
   /\ regs[lastEvent.id].fn = "notAFunction")
  => /\ lastEvent.threw
     /\ countWatchers(Here, lastEvent.key) = lastEvent.pre.count[lastEvent.key]

\* C14: no set invokes a watcher that was cancelled before it, also when
\* the cancellation was made by a callback during an earlier pass; and a
\* set during which a callback invokes the unwatch function of a watcher of
\* the key (its own, an earlier or a later one) invokes every watcher that
\* was active and is not cancelled in that pass exactly once.
C14_CancelDuringPass ==
  lastEvent.op = "set" =>
    /\ \A i \in 1..Len(lastEvent.fired) :
         lastEvent.fired[i].id \in lastEvent.pre.active[lastEvent.key]
    /\ nestedCancels(lastEvent.fired) # {} =>
         \A id \in lastEvent.pre.active[lastEvent.key]
                     \ nestedCancels(lastEvent.fired) :
           Len(argsOf(lastEvent.fired, id)) = 1

\* C14's case: the first watcher's callback cancelled the second during the
\* first set, which invoked both; the second set has invoked the first only.
C14_Witness ==
  /\ lastEvent.op = "set"
  /\ Len(regs) = 2
  /\ regs[1].fn = "cancel2" /\ ~regs[1].once
  /\ Len(heard[1]) = 2 /\ Len(heard[2]) = 1
  /\ idsOf(lastEvent.fired) = <<1>>
  /\ 2 \in cancelled

\* C15: the callback of a once() registration is invoked at most once in
\* the life of the map, whatever the callbacks of the key do.
C15_OnceAtMostOnce ==
  \A id \in Ids : regs[id].once => Len(heard[id]) <= 1

\* the positions of the calls, during the last top-level call, of callbacks
\* that threw
ThrowsAt == {i \in 1..Len(lastEvent.fired) : lastEvent.fired[i].did.op = "throw"}

\* C16: a set during which a callback throws ends with that exception: the
\* throwing call is the last call of the pass, so no watcher registered
\* after the throwing one is invoked; the key holds what it held before the
\* call (or is still absent), and its entry in 'previous' holds that same
\* old value.
C16_ThrowAbortsSet ==
  (lastEvent.op = "set" /\ ThrowsAt # {}) =>
    /\ lastEvent.threw
    /\ ThrowsAt = {Len(lastEvent.fired)}
    /\ \A id \in lastEvent.pre.active[lastEvent.key] :
         id > lastEvent.fired[Len(lastEvent.fired)].id
           => argsOf(lastEvent.fired, id) = <<>>
    /\ mapHas(store, lastEvent.key) = lastEvent.pre.has
    /\ mapGet(store, lastEvent.key) = lastEvent.pre.get
    /\ previous[lastEvent.key] = lastEvent.pre.get

\* C16's case: the second of three watchers threw during a set of another
\* value on a present key whose entry in 'previous' held something else.
C16_Witness ==
  /\ lastEvent.op = "set"
  /\ lastEvent.threw
  /\ Cardinality(lastEvent.pre.active[lastEvent.key]) = 3
  /\ idsOf(lastEvent.fired) = <<1, 2>>
  /\ ThrowsAt = {2}
  /\ lastEvent.pre.has
  /\ lastEvent.pre.get # lastEvent.value
  /\ lastEvent.pre.prev # lastEvent.pre.get
  /\ store[lastEvent.key] = lastEvent.pre.get
  /\ previous[lastEvent.key] = lastEvent.pre.get

\* the calls on the key of registration id, since it was made, end with a
\* delete followed by one set
DeletedThenSet(id) ==
  /\ Len(since[id]) >= 2
  /\ since[id][Len(since[id]) - 1].op = "delete"
  /\ since[id][Len(since[id])].op = "set"

\* C17: delete(k) leaves no entry of k in 'previous'; the first set(k, v)
\* after a delete(k) invokes the watchers of k with (v, undefined); and a
\* watch or once with always that follows that set is invoked with
\* (v, undefined).
C17_DeleteForgetsPrevious ==
  /\ lastEvent.op = "delete" => previous[lastEvent.key] = NoEntry
  /\ lastEvent.op = "set" =>
       \A id \in lastEvent.pre.active[lastEvent.key] :
         DeletedThenSet(id) => FiredOnceWith(id, lastEvent.value, Undefined)
  /\ (lastEvent.op \in {"watch", "once"} /\ regs[lastEvent.id].always) =>
       \A id \in Ids \ {lastEvent.id} :
         (regs[id].key = lastEvent.key /\ DeletedThenSet(id)) =>
           FiredOnceWith(lastEvent.id, since[id][Len(since[id])].value, Undefined)

\* C17's case: a key that held a value was deleted and set to another value,
\* which invoked a watcher with (v, undefined), and a watch with always has
\* just been invoked with (v, undefined).
C17_Witness ==
  /\ lastEvent.op = "watch"
  /\ regs[lastEvent.id].always
  /\ \E id \in Ids \ {lastEvent.id} :
       /\ regs[id].key = lastEvent.key /\ regs[id].present
       /\ DeletedThenSet(id)
       /\ since[id][Len(since[id])].value \notin {Undefined, regs[id].get}
       /\ heard[id] = <<[value |-> since[id][Len(since[id])].value,
                         oldValue |-> Undefined]>>
       /\ FiredOnceWith(lastEvent.id, since[id][Len(since[id])].value, Undefined)

\* C18: when a top-level set(k, v) has returned, k is present and holds v,
\* whatever set and delete calls on k the callbacks of the pass made.
C18_OutermostSetCommitsLast ==
  (lastEvent.op = "set" /\ ~lastEvent.threw) =>
    /\ mapHas(store, lastEvent.key)
    /\ mapGet(store, lastEvent.key) = lastEvent.value
    /\ lastEvent.ret = "this"

\* C18's case: during a set of v one callback has set the key to another
\* value and one has deleted the key; the set returned, the key holds v, and
\* the last value a watcher was notified of is not v.
C18_Witness ==
  /\ lastEvent.op = "set"
  /\ ~lastEvent.threw
  /\ \E i \in 1..Len(lastEvent.fired) :
       /\ lastEvent.fired[i].did.op = "set"
       /\ lastEvent.fired[i].did.value # lastEvent.value
  /\ \E i \in 1..Len(lastEvent.fired) : lastEvent.fired[i].did.op = "delete"
  /\ store[lastEvent.key] = lastEvent.value
  /\ \E id \in Ids :
       /\ heard[id] # <<>>
       /\ heard[id][Len(heard[id])].value # lastEvent.value

\* the positions of the calls, during the last top-level call, of callbacks
\* that registered a watcher
WatchesAt == {i \in 1..Len(lastEvent.fired) : lastEvent.fired[i].did.op = "watch"}

\* C19: a watcher that a callback registers on k during a set on k is not
\* invoked during that set, with or without a cancellation earlier in the
\* pass; every callback called later in the pass finds it registered, and it
\* is registered when the set returns; the next set on k invokes it.
C19_RegisteredDuringPass ==
  lastEvent.op = "set" =>
    /\ \A i \in WatchesAt :
         LET id == lastEvent.fired[i].did.id
         IN  /\ argsOf(lastEvent.fired, id) = <<>>
             /\ \A j \in (i + 1)..Len(lastEvent.fired) :
                  \E n \in DOMAIN lastEvent.fired[j].sees.ids :
                    lastEvent.fired[j].sees.ids[n] = id
             /\ \E n \in DOMAIN watchers[lastEvent.key].arr :
                  watchers[lastEvent.key].arr[n].id = id
             /\ countWatchers(Here, lastEvent.key)
                  = Cardinality(ActiveOn(lastEvent.key))
    /\ \A id \in lastEvent.pre.active[lastEvent.key] :
         regs[id].nested => FiredOnceWith(id, lastEvent.value, lastEvent.pre.get)

\* C19's case: during a first set the first watcher cancelled itself and the
\* second, a once, registered a third, which was not invoked; the second
\* set has invoked the third.
C19_Witness ==
  /\ lastEvent.op = "set"
  /\ Len(regs) = 3
  /\ regs[1].fn = "cancel1" /\ Len(heard[1]) = 1 /\ 1 \in cancelled
  /\ regs[2].fn = "watches" /\ regs[2].once
  /\ regs[3].nested
  /\ idsOf(lastEvent.fired) = <<3>>
  /\ Len(heard[3]) = 1
  /\ countWatchers(Here, lastEvent.key) = 1

\* C20: set and delete leave the records of every other key as they were
\* and invoke none of them; delete leaves the records and the count of its
\* own key as they were; set removes from the records of its key those made
\* by once(), which it has invoked, and no other; so a watcher that has seen
\* its key deleted is still registered and is invoked by the next set.
C20_SetDeleteKeepWatchers ==
  lastEvent.op \in {"set", "delete"} =>
    /\ \A k \in Keys \ {lastEvent.key} : watchers[k].arr = lastEvent.pre.arr[k]
    /\ \A i \in 1..Len(lastEvent.fired) :
         regs[lastEvent.fired[i].id].key = lastEvent.key
    /\ lastEvent.op = "delete" =>
         /\ watchers[lastEvent.key].arr = lastEvent.pre.arr[lastEvent.key]
         /\ countWatchers(Here, lastEvent.key) = lastEvent.pre.count[lastEvent.key]
         /\ lastEvent.pre.active[lastEvent.key] = ActiveOn(lastEvent.key)
    /\ lastEvent.op = "set" =>
         /\ watchers[lastEvent.key].arr =
              SelectSeq(lastEvent.pre.arr[lastEvent.key],
                        LAMBDA c : ~regs[c.id].once)
         /\ \A id \in lastEvent.pre.active[lastEvent.key] :
              (\E j \in 1..Len(since[id]) : since[id][j].op = "delete")
                => Len(argsOf(lastEvent.fired, id)) = 1

\* C20's case: a watcher registered on a key that was never set has seen
\* the key set, deleted and set again, and was invoked by both sets.
C20_Witness ==
  /\ lastEvent.op = "set"
  /\ \E id \in Ids :
       /\ ~regs[id].once /\ ~regs[id].present
       /\ regs[id].key = lastEvent.key
       /\ Len(since[id]) = 3
       /\ since[id][1].op = "set" /\ since[id][2].op = "delete"
       /\ Len(heard[id]) = 2
       /\ idsOf(watchers[lastEvent.key].arr) = <<id>>

====
